---- MODULE Spec2Model ----
(***************************************************************************)
(* Model of scrapper.py: the pagination walk (_get_result_pages), the ad   *)
(* extraction (_get_ads_from_page), their composition (_get_ads_from_url)  *)
(* and main, which writes result.csv.                                      *)
(*                                                                         *)
(* Text is a sequence of tokens.  A token is a triple <<kind, p, i>>, so   *)
(* that all tokens are comparable.  A Python value is either None or a     *)
(* str; the two are kept apart so that formatting None is observable.      *)
(***************************************************************************)
EXTENDS Integers, Sequences, FiniteSets, TLC

\* ------------------------------------------------------------- bounds
\* Pages of the site in the walker's specification.
MaxPages == 3
\* Items of the ad list in the extractor's specification.
MaxItems == 3
\* Pages of the site in main's specification.
MainPages == 2
\* Lines of url.txt in main's specification.
MaxUrls == 2

VARIABLES
    web,      \* the site: page number -> rendered page (fixed during a run)
    pep479,   \* TRUE: the interpreter turns StopIteration raised in a generator into RuntimeError (3.7+)
    urlFile,  \* text of url.txt
    drv,      \* "none" | "open" | "quit": the webdriver of _open_webdriver
    quits,    \* number of driver.quit() calls
    cur,      \* page the driver is showing, 0 before the first get
    gets,     \* urls passed to driver.get by the current walk
    wpc,      \* position of _get_result_pages
    wurl,     \* its url argument
    pages,    \* pages shown by the driver at each yield of the current walk
    epc,      \* position of _get_ads_from_page
    esnap,    \* page whose items line 89 collected
    ei,       \* index of the item of the last yield
    ads,      \* records yielded by the current extraction, with the item each was built from
    mpc,      \* position of main, "idle" when a generator is driven on its own
    ui,       \* rows of url.txt consumed by _get_urls
    url,      \* main's loop variable
    olx_ad,   \* main's inner loop variable
    out,      \* text of result.csv
    written,  \* the (url, record) pairs main has written a row for
    exc       \* exception that left the generator or main, "none" if none

vars == <<web, pep479, urlFile, drv, quits, cur, gets, wpc, wurl, pages,
          epc, esnap, ei, ads, mpc, ui, url, olx_ad, out, written, exc>>

staticVars == <<web, pep479, urlFile>>
walkVars == <<cur, gets, wpc, wurl, pages>>
extractVars == <<epc, esnap, ei, ads>>
mainVars == <<mpc, ui, url, olx_ad, out, written>>

\* ------------------------------------------------------------- text
Tok(k, p, i) == <<k, p, i>>
NL == Tok("\n", 0, 0)
Semi == Tok(";", 0, 0)

\* Python values: None, and str(s) for a text s.
None == [none |-> TRUE, s |-> <<>>]
Str(s) == [none |-> FALSE, s |-> s]

\* The text of a field in the output format of the specification: an
\* absent value is the empty text.
FormatMissingAsEmpty(v) == v.s

\* f'{v}' of line 142: str(None) is the text 'None', a str is itself.
Format(v) == IF v.none THEN <<Tok("None", 0, 0)>> ELSE v.s

\* The address of page p, and the page a browser shows for a url text:
\* leading and trailing white space of the url is not part of the address.
Url(p) == <<Tok("url", p, 0)>>
StripURL(u) == SelectSeq(u, LAMBDA t : t # NL)
PageAt(u) == CHOOSE p \in DOMAIN web : Url(p) = StripURL(u)

\* ------------------------------------------------------------- the site
\* An item of the ad list: its class attribute, whether it has the
\* OLXad-list-link element, whether that element has id and title
\* attributes, whether it has an OLXad-list-price element.
Item(cls, link, attrs, price) == [cls |-> cls, link |-> link, attrs |-> attrs, price |-> price]
AdItem == Item(<<"item">>, TRUE, TRUE, TRUE)
NoPriceItem == Item(<<"item">>, TRUE, TRUE, FALSE)
NoLinkItem == Item(<<"item">>, FALSE, FALSE, TRUE)
BareItem == Item(<<"item">>, TRUE, FALSE, TRUE)
PromoItem == Item(<<"item", "list_native">>, TRUE, TRUE, TRUE)
ItemKinds == {AdItem, NoPriceItem, NoLinkItem, BareItem, PromoItem}

ItemSeqs(n) == UNION {[1..k -> ItemKinds] : k \in 0..n}

\* A rendered page: ok (driver.get succeeds), notFound (section_not_found
\* elements), list (the main-ad-list element), its items, and pag, the
\* pagination control: "absent", "nonext" (no 'next' element), "next"
\* (a 'next' element whose link leads to the following page), "nolink" (a
\* 'next' element without a 'link' element).
Page(ok, nf, list, items, pag) == [ok |-> ok, notFound |-> nf, list |-> list, items |-> items, pag |-> pag]
FailPage == Page(FALSE, FALSE, FALSE, <<>>, "absent")
NotFoundPage == Page(TRUE, TRUE, FALSE, <<>>, "absent")
PagKinds == {"absent", "nonext", "next", "nolink"}

\* A site of n pages from the set S; the last page has no following page.
Sites(n, S) == {w \in [1..n -> S] : w[n].pag # "next"}

\* ------------------------------------------------------------- _get_result_pages
\* Line 61: find_elements_by_class_name('section_not_found') is non-empty.
NoResults(p) == web[p].notFound

\* Lines 66 and 75: find_element_by_class_name raises NoSuchElementException
\* when the page has no 'module_pagination' element.
PaginationMissing(p) == web[p].pag = "absent"

\* Line 67: 'not pag_elem' for the WebElement line 66 returned.  A WebElement
\* defines neither __bool__ nor __len__, so it is never falsy.
NotPagElem(p) == FALSE

\* Lines 70 and 76: find_elements_by_class_name('next') is non-empty.
NextElems(p) == web[p].pag \in {"next", "nolink"}

\* Line 72: the 'next' element has a 'link' element; its href is the address
\* of the following page.
NextHasLink(p) == web[p].pag = "next"

\* Href with the link of the 'next' element leading back to the page itself.
HrefSelf(p) == Url(p)

Href(p) == Url(p + 1)

WalkState(pc, c, g, ps, e) == [pc |-> pc, cur |-> c, gets |-> g, pages |-> ps, exc |-> e]

\* Lines 62 and 68: 'raise StopIteration()' in a generator body ends the
\* generator up to Python 3.6 and is replaced by RuntimeError from 3.7 on.
RaiseStopIteration(c, g) ==
    IF pep479 THEN WalkState("raised", c, g, pages, "RuntimeError")
    ELSE WalkState("done", c, g, pages, "none")

\* GetAndYield with a failed driver.get swallowed: the driver is yielded anyway.
GetAndYieldSwallow(u, first) ==
    LET p == PageAt(u)
        g == Append(gets, u)
    IN  IF first /\ web[p].ok /\ NoResults(p) THEN RaiseStopIteration(p, g)
        ELSE WalkState(IF first THEN "y64" ELSE "y74", p, g, Append(pages, p), "none")

\* Lines 59 and 73-74: driver.get(u), then the yield of the driver.
GetAndYield(u, first) ==
    LET p == PageAt(u)
        g == Append(gets, u)
    IN  IF ~web[p].ok THEN WalkState("raised", cur, g, pages, "WebDriverException")
        ELSE IF first /\ NoResults(p) THEN RaiseStopIteration(p, g)
        ELSE WalkState(IF first THEN "y64" ELSE "y74", p, g, Append(pages, p), "none")

\* One next() on the generator: from its start (lines 59-64), from the yield
\* of line 64 (lines 66-74) or from the yield of line 74 (lines 75-76, 71-74).
WalkNext ==
    IF wpc = "start" THEN GetAndYield(wurl, TRUE)
    ELSE IF PaginationMissing(cur) THEN WalkState("raised", cur, gets, pages, "NoSuchElementException")
    ELSE IF wpc = "y64" /\ NotPagElem(cur) THEN RaiseStopIteration(cur, gets)
    ELSE IF ~NextElems(cur) THEN WalkState("done", cur, gets, pages, "none")
    ELSE IF ~NextHasLink(cur) THEN WalkState("raised", cur, gets, pages, "NoSuchElementException")
    ELSE GetAndYield(Href(cur), FALSE)

WalkActive == wpc \in {"start", "y64", "y74"}

\* The walker's variables after one next().
ResultPagesNext ==
    /\ WalkActive
    /\ LET r == WalkNext
       IN  /\ wpc' = r.pc
           /\ cur' = r.cur
           /\ gets' = r.gets
           /\ pages' = r.pages
           /\ exc' = r.exc
    /\ UNCHANGED wurl

\* ------------------------------------------------------------- the walk on its own
\* list(_get_result_pages(driver, url)) on an open driver: the consumer only
\* asks for the next document.
WalkPages == {FailPage, NotFoundPage} \cup {Page(TRUE, FALSE, TRUE, <<>>, g) : g \in PagKinds}

InitWalk ==
    /\ web \in Sites(MaxPages, WalkPages)
    /\ pep479 \in BOOLEAN
    /\ urlFile = <<>>
    /\ drv = "open" /\ quits = 0 /\ cur = 0 /\ gets = <<>>
    /\ wpc = "start" /\ wurl \in {Url(p) : p \in 1..MaxPages} /\ pages = <<>>
    /\ epc = "idle" /\ esnap = 0 /\ ei = 0 /\ ads = <<>>
    /\ mpc = "idle" /\ ui = 0 /\ url = <<>> /\ olx_ad = None /\ out = <<>> /\ written = <<>>
    /\ exc = "none"

ConsumePages ==
    /\ mpc = "idle"
    /\ ResultPagesNext
    /\ UNCHANGED <<staticVars, drv, quits, extractVars, mainVars>>

NextWalk == ConsumePages

SpecWalk == InitWalk /\ [][NextWalk]_vars

\* ------------------------------------------------------------- claims about the walk
WalkEnded == wpc \in {"done", "raised"}
StartPage == PageAt(wurl)

\* The chain of pages that starts at page s: s, and the page each 'next'
\* link leads to, up to the first page without one.
RECURSIVE ChainEnd(_)
ChainEnd(s) == IF web[s].pag = "next" THEN ChainEnd(s + 1) ELSE s
Chain(s) == [k \in 1..(ChainEnd(s) - s + 1) |-> s + k - 1]

\* C1: a walk whose start page carries the no-results marker yields no
\* document and ends normally, no error reaching the consumer.
C1_NoResultsWalkIsEmpty ==
    (wpc # "start" /\ web[StartPage].ok /\ NoResults(StartPage))
        => (wpc = "done" /\ pages = <<>> /\ exc = "none")

\* C2: a walk whose start page has results and no pagination control yields
\* exactly one document and then ends normally.
C2_SinglePageWalk ==
    (WalkEnded /\ web[StartPage].ok /\ ~NoResults(StartPage) /\ PaginationMissing(StartPage))
        => (wpc = "done" /\ pages = <<StartPage>> /\ exc = "none")

\* C3: on a chain of N result pages, each but the last with a 'next' link,
\* the last with a pagination control without 'next' or with none at all, the
\* walk yields the N pages in link order and then ends normally.
IsResultChain(s) ==
    /\ \A k \in s..ChainEnd(s) : web[k].ok /\ ~NoResults(k)
    /\ web[ChainEnd(s)].pag \in {"nonext", "absent"}
C3_ChainWalk ==
    (WalkEnded /\ IsResultChain(StartPage))
        => (wpc = "done" /\ pages = Chain(StartPage) /\ exc = "none")

\* The page the k-th driver.get of the walk asked for.
PageOfGet(k) == PageAt(gets[k])

\* C11: on a site whose 'next' links form an acyclic chain, the urls passed
\* to driver.get are the start url, then the href of the 'next' link of the
\* page rendered before, each further down the chain; no url is rendered
\* twice and no page is yielded twice.
C11_NoRevisit ==
    /\ gets # <<>> => gets[1] = wurl
    /\ \A k \in 1..(Len(gets) - 1) :
        /\ web[PageOfGet(k)].pag = "next"
        /\ gets[k + 1] = Url(PageOfGet(k) + 1)
    /\ \A k, l \in DOMAIN gets : k < l => (gets[k] # gets[l] /\ PageOfGet(k) < PageOfGet(l))
    /\ \A k, l \in DOMAIN pages : k < l => pages[k] < pages[l]
C11_Witness == wpc = "done" /\ Len(gets) >= 3 /\ Len(pages) >= 3

\* A consumer that goes on asking for the next document until the walk ends.
SpecWalkFair == InitWalk /\ [][NextWalk]_vars /\ WF_vars(ConsumePages)

\* C12: a fully consumed walk ends.  Each next() either closes the walk or
\* renders the page the 'next' link of the page shown leads to (the start
\* page at first), one page further down the finite chain.
C12_WalkTerminates ==
    /\ <>WalkEnded
    /\ [][\/ WalkEnded'
          \/ wpc = "start" /\ cur' = StartPage /\ Len(gets') = 1
          \/ web[cur].pag = "next" /\ cur' = cur + 1 /\ Len(gets') = Len(gets) + 1]_vars
C12_Witness == wpc = "done" /\ Len(gets) >= 2 /\ \A p \in DOMAIN web : web[p].ok

\* The last driver.get of the walk failed.
RenderFailed == gets # <<>> /\ ~web[PageOfGet(Len(gets))].ok

\* C15: a driver.get that fails ends the walk with the failure raised to
\* the consumer; the documents yielded are the pages of the gets before it,
\* each of which succeeded, and no url was asked for twice.
C15_RenderFailurePropagates ==
    RenderFailed =>
        /\ wpc = "raised" /\ exc = "WebDriverException"
        /\ pages = [k \in 1..(Len(gets) - 1) |-> PageOfGet(k)]
        /\ \A k \in 1..(Len(gets) - 1) : web[PageOfGet(k)].ok
        /\ \A k, l \in DOMAIN gets : k # l => gets[k] # gets[l]
C15_Witness == RenderFailed /\ wpc = "raised" /\ Len(pages) >= 2

\* ------------------------------------------------------------- _get_ads_from_page
\* Line 90: 'list_native' in item.get_attribute('class').
IsNative(item) == \E k \in DOMAIN item.cls : item.cls[k] = "list_native"

\* Lines 93-95: the attributes of the item's link element; get_attribute
\* gives None for an attribute the element does not have.
IdOf(p, i) == IF web[p].items[i].attrs THEN Str(<<Tok("id", p, i)>>) ELSE None
TitleOf(p, i) == IF web[p].items[i].attrs THEN Str(<<Tok("title", p, i)>>) ELSE None
HrefOf(p, i) == Str(<<Tok("href", p, i)>>)

\* PriceOf without the test of line 98: a price even without a price element.
PriceOfUnguarded(p, i) == Str(<<Tok("price", p, i)>>)

\* Lines 97-101: the text of the first price element, None without one.
PriceOf(p, i) == IF web[p].items[i].price THEN Str(<<Tok("price", p, i)>>) ELSE None

\* Lines 10-14.
OlxAd(olx_id, name, link, price) == [olx_id |-> olx_id, name |-> name, link |-> link, price |-> price]

\* AdOfItem with the id read from the first item of the list.
AdOfItemFirstId(p, i) == OlxAd(IdOf(p, 1), TitleOf(p, i), HrefOf(p, i), PriceOf(p, i))

\* Line 103, for item i of page p.
AdOfItem(p, i) == OlxAd(IdOf(p, i), TitleOf(p, i), HrefOf(p, i), PriceOf(p, i))

\* Lines 89-90: the first item at or after i that is not a native placement,
\* Len(items) + 1 if there is none.
RECURSIVE NextAdIndex(_, _)
NextAdIndex(items, i) ==
    IF i > Len(items) THEN i
    ELSE IF IsNative(items[i]) THEN NextAdIndex(items, i + 1)
    ELSE i

\* LinkMissing with the lookup of line 91 never raising.
LinkMissingIgnored(p, i) == FALSE

\* Line 91: find_element_by_class_name('OLXad-list-link') raises
\* NoSuchElementException for an item without the element.
LinkMissing(p, i) == ~web[p].items[i].link

ExtractState(pc, snap, i, as, e) == [pc |-> pc, snap |-> snap, i |-> i, ads |-> as, exc |-> e]

\* Lines 89-104 from item i of the items collected on page snap, up to the
\* next yield, the end of the loop or an exception.  The items are read
\* through the driver: an item of a page the driver has left is stale.
ScanItems(snap, i) ==
    LET items == web[snap].items
        j == NextAdIndex(items, i)
    IN  IF i > Len(items) THEN ExtractState("done", snap, ei, ads, "none")
        ELSE IF cur # snap THEN ExtractState("raised", snap, ei, ads, "StaleElementReferenceException")
        ELSE IF j > Len(items) THEN ExtractState("done", snap, ei, ads, "none")
        ELSE IF LinkMissing(snap, j) THEN ExtractState("raised", snap, j, ads, "NoSuchElementException")
        ELSE ExtractState("yielded", snap, j,
                          Append(ads, [page |-> snap, idx |-> j, ad |-> AdOfItem(snap, j)]), "none")

\* One next() on the generator: from its start (line 88, then the loop) or
\* from the yield of line 104.
ExtractNext ==
    IF epc = "start"
    THEN IF ~web[cur].list THEN ExtractState("raised", esnap, ei, ads, "NoSuchElementException")
         ELSE ScanItems(cur, 1)
    ELSE ScanItems(esnap, ei + 1)

ExtractActive == epc \in {"start", "yielded"}

\* The extractor's variables after one next().
AdsFromPageNext ==
    /\ ExtractActive
    /\ LET r == ExtractNext
       IN  /\ epc' = r.pc
           /\ esnap' = r.snap
           /\ ei' = r.i
           /\ ads' = r.ads
           /\ exc' = r.exc

\* ------------------------------------------------------------- the extraction on its own
\* list(_get_ads_from_page(driver)) on a driver that shows a result page.
ExtractPages ==
    {Page(TRUE, FALSE, FALSE, <<>>, "absent")}
        \cup {Page(TRUE, FALSE, TRUE, items, "absent") : items \in ItemSeqs(MaxItems)}

InitExtract ==
    /\ web \in [{1} -> ExtractPages]
    /\ pep479 \in BOOLEAN
    /\ urlFile = <<>>
    /\ drv = "open" /\ quits = 0 /\ cur = 1 /\ gets = <<>>
    /\ wpc = "idle" /\ wurl = <<>> /\ pages = <<>>
    /\ epc = "start" /\ esnap = 0 /\ ei = 0 /\ ads = <<>>
    /\ mpc = "idle" /\ ui = 0 /\ url = <<>> /\ olx_ad = None /\ out = <<>> /\ written = <<>>
    /\ exc = "none"

ConsumeAds ==
    /\ mpc = "idle"
    /\ AdsFromPageNext
    /\ UNCHANGED <<staticVars, drv, quits, walkVars, mainVars>>

NextExtract == ConsumeAds

SpecExtract == InitExtract /\ [][NextExtract]_vars

\* ------------------------------------------------------------- claims about the extraction
ExtractEnded == epc \in {"done", "raised"}
ListItems == web[1].items
Unflagged == {i \in DOMAIN ListItems : ~IsNative(ListItems[i])}

\* The item a record was built from, read off the record's link.
ItemOfAd(r) == r.ad.link.s[1][3]

\* The loop of line 89 has dealt with item i.
Reached(i) == epc = "done" \/ (epc \in {"yielded", "raised"} /\ i <= ei)

\* C6: the extraction of a page yields as many records as the ad list has
\* items without the native-placement flag.
C6_RecordCountIsUnflaggedCount ==
    (ExtractEnded /\ web[1].list) => Len(ads) = Cardinality(Unflagged)

\* C7: records come in document order, none for a flagged item, and the id,
\* name and link of a record are those of the item it was built from.
C7_DocumentOrder ==
    /\ \A k \in DOMAIN ads :
        /\ ItemOfAd(ads[k]) \in Unflagged
        /\ ads[k].ad.link = Str(<<Tok("href", 1, ItemOfAd(ads[k]))>>)
        /\ ads[k].ad.olx_id \in {None, Str(<<Tok("id", 1, ItemOfAd(ads[k]))>>)}
        /\ ads[k].ad.name \in {None, Str(<<Tok("title", 1, ItemOfAd(ads[k]))>>)}
        /\ ads[k].ad.olx_id.none = ~ListItems[ItemOfAd(ads[k])].attrs
        /\ ads[k].ad.name.none = ~ListItems[ItemOfAd(ads[k])].attrs
    /\ \A k, l \in DOMAIN ads : k < l => ItemOfAd(ads[k]) < ItemOfAd(ads[l])
C7_Witness ==
    /\ epc = "done" /\ Len(ads) = 2
    /\ ItemOfAd(ads[1]) = 1 /\ ItemOfAd(ads[2]) = 3

\* C8: an unflagged item with its link element and no price element, once
\* the loop has dealt with it, has a record whose price is None; the
\* extraction does not fail at it, and fails only at an item without link.
C8_MissingPriceIsNone ==
    /\ \A i \in DOMAIN ListItems :
        (Reached(i) /\ i \in Unflagged /\ ~LinkMissing(1, i) /\ ~ListItems[i].price)
            => /\ \E k \in DOMAIN ads : ItemOfAd(ads[k]) = i /\ ads[k].ad.price = None
               /\ ~(epc = "raised" /\ ei = i)
    /\ (epc = "raised" /\ web[1].list) => (ei \in Unflagged /\ LinkMissing(1, ei))
C8_Witness ==
    /\ epc = "done" /\ Len(ads) = 2
    /\ ~ListItems[ItemOfAd(ads[1])].price /\ ads[1].ad.price = None
    /\ ListItems[ItemOfAd(ads[2])].price /\ ads[2].ad.price # None

\* C18: the first unflagged item without link element aborts the page: the
\* extraction ends there with NoSuchElementException, having yielded the
\* records of the unflagged items before it and no other; no record is ever
\* built from that item or from an item after it.
C18_MissingLinkAborts ==
    \A j \in Unflagged :
        ~ListItems[j].link =>
            /\ \A k \in DOMAIN ads : ItemOfAd(ads[k]) < j
            /\ (ExtractEnded /\ \A i \in Unflagged : i < j => ListItems[i].link)
                => /\ epc = "raised" /\ exc = "NoSuchElementException" /\ ei = j
                   /\ {ItemOfAd(ads[k]) : k \in DOMAIN ads} = {i \in Unflagged : i < j}
                   /\ Len(ads) = Cardinality({i \in Unflagged : i < j})
C18_Witness ==
    /\ epc = "raised" /\ ads # <<>> /\ ei < Len(ListItems)
    /\ ~IsNative(ListItems[ei + 1]) /\ ListItems[ei + 1].link

\* ------------------------------------------------------------- main
\* Line 137: the header line.
Header ==
    <<Tok("url", 0, 0), Semi, Tok("olx_id", 0, 0), Semi, Tok("name", 0, 0), Semi,
      Tok("price", 0, 0), Semi, Tok("link", 0, 0), NL>>

\* Line 142: the row of a record, the fields formatted by the f-string.
Row(u, ad) ==
    u \o <<Semi>> \o Format(ad.olx_id) \o <<Semi>> \o Format(ad.name) \o <<Semi>>
      \o Format(ad.price) \o <<Semi>> \o Format(ad.link) \o <<NL>>

\* Lines 45-46: iterating a text file gives its lines, each with its line
\* terminator; only the last line may lack one.
FirstLineEnd(t) == IF \E k \in DOMAIN t : t[k] = NL THEN CHOOSE k \in DOMAIN t : t[k] = NL /\ \A m \in 1..(k - 1) : t[m] # NL ELSE Len(t)
RECURSIVE FileRows(_)
FileRows(t) ==
    IF t = <<>> THEN <<>>
    ELSE <<SubSeq(t, 1, FirstLineEnd(t))>> \o FileRows(SubSeq(t, FirstLineEnd(t) + 1, Len(t)))

\* A url.txt with one url per line, with or without a final line terminator.
RECURSIVE JoinLines(_, _)
JoinLines(ls, final) ==
    IF ls = <<>> THEN <<>>
    ELSE IF Len(ls) = 1 THEN ls[1] \o (IF final THEN <<NL>> ELSE <<>>)
    ELSE ls[1] \o <<NL>> \o JoinLines(Tail(ls), final)
UrlFiles(n, m) ==
    {JoinLines(ls, final) :
        ls \in UNION {[1..k -> {Url(p) : p \in 1..n}] : k \in 0..m},
        final \in BOOLEAN}

\* LeaveWith without the try/finally of lines 29-32: driver.quit() only when
\* the block ends normally.
LeaveWithoutFinally(pc) ==
    /\ mpc' = pc
    /\ drv' = IF pc = "done" THEN "quit" ELSE drv
    /\ quits' = IF pc = "done" THEN quits + 1 ELSE quits

\* Leaving the with blocks of lines 136 and 138: driver.quit() (line 32),
\* then the file is closed.
LeaveWith(pc) ==
    /\ mpc' = pc
    /\ drv' = "quit"
    /\ quits' = quits + 1

\* MainOpenFile without the write of line 137.
MainOpenFileNoHeader ==
    /\ mpc = "start"
    /\ mpc' = "header"
    /\ out' = <<>>
    /\ UNCHANGED <<staticVars, drv, quits, walkVars, extractVars, ui, url, olx_ad, written, exc>>

\* Lines 136-137: result.csv is opened for writing and the header written.
MainOpenFile ==
    /\ mpc = "start"
    /\ mpc' = "header"
    /\ out' = Header
    /\ UNCHANGED <<staticVars, drv, quits, walkVars, extractVars, ui, url, olx_ad, written, exc>>

\* Lines 138 and 28: the driver is created, or its constructor raises.
MainOpenDriver ==
    /\ mpc = "header"
    /\ \E ok \in BOOLEAN :
        IF ok THEN drv' = "open" /\ mpc' = "urls" /\ exc' = "none"
        ELSE drv' = "none" /\ mpc' = "crashed" /\ exc' = "WebDriverException"
    /\ UNCHANGED <<staticVars, quits, walkVars, extractVars, ui, url, olx_ad, out, written>>

\* MainNextUrl with the loop variable left at the first row of url.txt.
MainNextUrlFirstRow ==
    /\ mpc = "urls"
    /\ IF ui < Len(FileRows(urlFile))
       THEN /\ ui' = ui + 1
            /\ url' = FileRows(urlFile)[1]
            /\ wpc' = "start" /\ wurl' = FileRows(urlFile)[ui + 1] /\ pages' = <<>> /\ gets' = <<>>
            /\ epc' = "idle"
            /\ mpc' = "ads"
            /\ UNCHANGED <<drv, quits>>
       ELSE /\ LeaveWith("done")
            /\ UNCHANGED <<ui, url, wpc, wurl, pages, gets, epc>>
    /\ UNCHANGED <<staticVars, cur, esnap, ei, ads, olx_ad, out, written, exc>>

\* Lines 139-140 and 117: the next row of url.txt and a walk for it, or the
\* end of the outer loop and of main.
MainNextUrl ==
    /\ mpc = "urls"
    /\ IF ui < Len(FileRows(urlFile))
       THEN /\ ui' = ui + 1
            /\ url' = FileRows(urlFile)[ui + 1]
            /\ wpc' = "start" /\ wurl' = url' /\ pages' = <<>> /\ gets' = <<>>
            /\ epc' = "idle"
            /\ mpc' = "ads"
            /\ UNCHANGED <<drv, quits>>
       ELSE /\ LeaveWith("done")
            /\ UNCHANGED <<ui, url, wpc, wurl, pages, gets, epc>>
    /\ UNCHANGED <<staticVars, cur, esnap, ei, ads, olx_ad, out, written, exc>>

\* AdsFromUrlNextPage with the next page asked for while the records of the
\* current page are still being consumed.
AdsFromUrlPrefetchPage ==
    /\ mpc = "ads"
    /\ epc # "start"
    /\ ResultPagesNext
    /\ IF wpc' \in {"y64", "y74"}
       THEN /\ IF epc = "yielded" THEN UNCHANGED extractVars
               ELSE epc' = "start" /\ esnap' = 0 /\ ei' = 0 /\ ads' = <<>>
            /\ UNCHANGED <<mpc, drv, quits>>
       ELSE IF wpc' = "done"
       THEN /\ mpc' = "urls"
            /\ UNCHANGED <<drv, quits, extractVars>>
       ELSE /\ LeaveWith("crashed")
            /\ UNCHANGED extractVars
    /\ UNCHANGED <<staticVars, ui, url, olx_ad, out, written>>

\* Line 117: _get_ads_from_url asks the walk for the next page; on a page it
\* starts an extraction (line 118), at the end of the walk its own end is
\* the end of main's inner loop, an exception leaves main.
AdsFromUrlNextPage ==
    /\ mpc = "ads"
    /\ ~ExtractActive
    /\ ResultPagesNext
    /\ IF wpc' \in {"y64", "y74"}
       THEN /\ epc' = "start" /\ esnap' = 0 /\ ei' = 0 /\ ads' = <<>>
            /\ UNCHANGED <<mpc, drv, quits>>
       ELSE IF wpc' = "done"
       THEN /\ mpc' = "urls"
            /\ UNCHANGED <<drv, quits, extractVars>>
       ELSE /\ LeaveWith("crashed")
            /\ UNCHANGED extractVars
    /\ UNCHANGED <<staticVars, ui, url, olx_ad, out, written>>

\* Lines 118-119 and 140: the next record of the page goes to main's inner
\* loop; at the end of the page the walk is asked again; an exception
\* leaves main.
AdsFromUrlNextAd ==
    /\ mpc = "ads"
    /\ AdsFromPageNext
    /\ IF epc' = "yielded"
       THEN /\ olx_ad' = ads'[Len(ads')].ad
            /\ mpc' = "write"
            /\ UNCHANGED <<drv, quits>>
       ELSE IF epc' = "done"
       THEN UNCHANGED <<mpc, olx_ad, drv, quits>>
       ELSE /\ LeaveWith("crashed")
            /\ UNCHANGED olx_ad
    /\ UNCHANGED <<staticVars, walkVars, ui, url, out, written>>

\* Lines 141-142: the record is printed and its row written; a write the
\* file system refuses raises OSError, which leaves main.  row is the
\* number of the row of url.txt the loop of line 139 is at.
MainWrite ==
    /\ mpc = "write"
    /\ \E ok \in BOOLEAN :
        IF ok
        THEN /\ out' = out \o Row(url, olx_ad)
             /\ written' = Append(written, [url |-> url, ad |-> olx_ad, row |-> ui])
             /\ mpc' = "ads"
             /\ UNCHANGED <<drv, quits, exc>>
        ELSE /\ LeaveWith("crashed")
             /\ exc' = "OSError"
             /\ UNCHANGED <<out, written>>
    /\ UNCHANGED <<staticVars, walkVars, extractVars, ui, url, olx_ad>>

\* The pages of the site in main's runs.
MainPageSet ==
    {FailPage, NotFoundPage,
     Page(TRUE, FALSE, FALSE, <<>>, "nonext"),
     Page(TRUE, FALSE, TRUE, <<AdItem, NoPriceItem>>, "next"),
     Page(TRUE, FALSE, TRUE, <<AdItem>>, "absent"),
     Page(TRUE, FALSE, TRUE, <<AdItem>>, "nonext"),
     Page(TRUE, FALSE, TRUE, <<>>, "next"),
     Page(TRUE, FALSE, TRUE, <<NoLinkItem>>, "next"),
     Page(TRUE, FALSE, TRUE, <<NoPriceItem>>, "nonext"),
     Page(TRUE, FALSE, TRUE, <<PromoItem, BareItem>>, "next"),
     Page(TRUE, FALSE, TRUE, <<BareItem>>, "nolink"),
     Page(TRUE, FALSE, TRUE, <<AdItem, NoLinkItem>>, "nonext")}

Init ==
    /\ web \in Sites(MainPages, MainPageSet)
    /\ pep479 \in BOOLEAN
    /\ urlFile \in UrlFiles(MainPages, MaxUrls)
    /\ drv = "none" /\ quits = 0 /\ cur = 0 /\ gets = <<>>
    /\ wpc = "idle" /\ wurl = <<>> /\ pages = <<>>
    /\ epc = "idle" /\ esnap = 0 /\ ei = 0 /\ ads = <<>>
    /\ mpc = "start" /\ ui = 0 /\ url = <<>> /\ olx_ad = None /\ out = <<>> /\ written = <<>>
    /\ exc = "none"

Next ==
    \/ MainOpenFile
    \/ MainOpenDriver
    \/ MainNextUrl
    \/ AdsFromUrlNextPage
    \/ AdsFromUrlNextAd
    \/ MainWrite

Spec == Init /\ [][Next]_vars

\* ------------------------------------------------------------- claims about main
MainEnded == mpc \in {"done", "crashed"}

\* The driver could not be created, or the file system refused a write.
EnvironmentFailed == drv = "none" \/ exc = "OSError"

\* The row the output format asks for: the fields verbatim, an absent
\* field as the empty text.
FormatRow(u, ad) ==
    u \o <<Semi>> \o FormatMissingAsEmpty(ad.olx_id) \o <<Semi>> \o FormatMissingAsEmpty(ad.name)
      \o <<Semi>> \o FormatMissingAsEmpty(ad.price) \o <<Semi>> \o FormatMissingAsEmpty(ad.link) \o <<NL>>

\* The record of item i of page p with its fields as the page has them.
ItemRecord(p, i, priced) ==
    OlxAd(Str(<<Tok("id", p, i)>>), Str(<<Tok("title", p, i)>>), Str(<<Tok("href", p, i)>>),
          IF priced THEN Str(<<Tok("price", p, i)>>) ELSE None)

\* Lines of a text: its line terminators, and one more for an unterminated rest.
LineCount(t) ==
    Cardinality({k \in DOMAIN t : t[k] = NL}) + (IF t # <<>> /\ t[Len(t)] # NL THEN 1 ELSE 0)

\* C4: one url; page 1 has two ads, the second without price, and a 'next'
\* link to page 2, which has one ad and no pagination control.  main
\* completes and result.csv is the header and the three rows in order, each
\* starting with the url, the missing price empty.
TwoPageScenario ==
    /\ web[1] = Page(TRUE, FALSE, TRUE, <<AdItem, NoPriceItem>>, "next")
    /\ web[2] = Page(TRUE, FALSE, TRUE, <<AdItem>>, "absent")
    /\ StripURL(urlFile) = Url(1)
C4_TwoPagesEndToEnd ==
    (MainEnded /\ ~EnvironmentFailed /\ TwoPageScenario)
        => /\ mpc = "done"
           /\ out = Header \o FormatRow(Url(1), ItemRecord(1, 1, TRUE))
                           \o FormatRow(Url(1), ItemRecord(1, 2, FALSE))
                           \o FormatRow(Url(1), ItemRecord(2, 1, TRUE))

\* C5: one url whose page carries the no-results marker.  main completes
\* normally and result.csv is the header alone.
NoResultsScenario ==
    /\ StripURL(urlFile) \in {Url(p) : p \in DOMAIN web}
    /\ web[PageAt(urlFile)] = NotFoundPage
C5_NoResultsEndToEnd ==
    (MainEnded /\ ~EnvironmentFailed /\ NoResultsScenario) => (mpc = "done" /\ exc = "none" /\ out = Header)

\* C9: the row written for a record is url;olx_id;name;price;link with the
\* record's fields verbatim and an absent field empty.
C9_RowFormat == [][(mpc = "write" /\ mpc' = "ads") => out' = out \o FormatRow(url, olx_ad)]_vars

\* C10: when main has completed, result.csv has one line for the header and
\* one line for each record written.
C10_OneLinePerRecord == mpc = "done" => LineCount(out) = 1 + Len(written)

\* C13: a render failure or a page-structure failure on one url does not
\* stop the run: when main ends, whether or not a walk or an extraction has
\* failed, it has gone on to every later row of url.txt.
C13_FailureDoesNotStopRun ==
    (MainEnded /\ ~EnvironmentFailed /\ exc # "RuntimeError") => ui = Len(FileRows(urlFile))

\* The page and the item a written record was built from, read off its link.
WrittenPage(k) == written[k].ad.link.s[1][2]
WrittenItem(k) == written[k].ad.link.s[1][3]

\* C14: rows are written url by url in the order of url.txt, each tagged
\* with the row of url.txt whose walk produced it, and within one url in
\* page order, then in item order; result.csv carries them in that order.
C14_InputOrder ==
    /\ \A k \in DOMAIN written :
        /\ written[k].row \in DOMAIN FileRows(urlFile)
        /\ written[k].url = FileRows(urlFile)[written[k].row]
        /\ WrittenPage(k) >= PageAt(written[k].url)
        /\ \A q \in PageAt(written[k].url)..(WrittenPage(k) - 1) : web[q].pag = "next"
    /\ \A k, l \in DOMAIN written :
        k < l => \/ written[k].row < written[l].row
                 \/ /\ written[k].row = written[l].row
                    /\ \/ WrittenPage(k) < WrittenPage(l)
                       \/ WrittenPage(k) = WrittenPage(l) /\ WrittenItem(k) < WrittenItem(l)
    /\ SelectSeq(out, LAMBDA t : t[1] = "href") = [k \in DOMAIN written |-> written[k].ad.link.s[1]]
    /\ SelectSeq(out, LAMBDA t : t[1] = "url" /\ t[2] # 0) = [k \in DOMAIN written |-> written[k].url[1]]
C14_Witness ==
    /\ mpc = "done" /\ Len(written) >= 4
    /\ \E k, l \in DOMAIN written :
        /\ written[k].row = 1 /\ written[l].row = 2 /\ written[k].url # written[l].url
    /\ \E k, l \in DOMAIN written :
        /\ written[k].row = written[l].row /\ WrittenPage(k) # WrittenPage(l)

\* C16: pages are rendered on demand.  A further page is rendered only when
\* the extraction of the page before has run to its end; while records are
\* taken from a page the driver shows that page, the one yielded last, and
\* no item is ever read through a stale handle.
C16_RenderOnDemand ==
    /\ [](epc = "yielded" => (cur = esnap /\ pages # <<>> /\ esnap = pages[Len(pages)]))
    /\ [](mpc = "write" => olx_ad.link.s[1][2] = cur)
    /\ [](exc # "StaleElementReferenceException")
    /\ [][(wpc \in {"y64", "y74"} /\ Len(gets') = Len(gets) + 1) => epc = "done"]_vars
C16_Witness == epc = "yielded" /\ Len(pages) = 2 /\ cur = 2 /\ written # <<>>

\* C17: a driver that was created is quit exactly once, on the normal end
\* of main and on an exception from the walk, the extraction or the write
\* alike, and only when main has ended: as long as main runs, and the
\* driver can be used, it has not been quit.
C17_DriverReleased ==
    /\ MainEnded => \/ drv = "none" /\ quits = 0 /\ exc = "WebDriverException"
                    \/ drv = "quit" /\ quits = 1
    /\ ~MainEnded => (quits = 0 /\ drv \in {"none", "open"})
    /\ (WalkActive \/ ExtractActive) /\ ~MainEnded => drv = "open"
C17_Witness == mpc = "crashed" /\ exc = "OSError" /\ drv = "quit" /\ quits = 1 /\ cur = 2

\* Header lines in result.csv, counted by their olx_id column name.
HeaderCount == Cardinality({k \in DOMAIN out : out[k] = Tok("olx_id", 0, 0)})

\* C19: the header is written once, as the first line, before the driver is
\* created, a page rendered or a row written, and it is there when main
\* ends, whatever the url list and however the crawl went.
C19_HeaderFirst ==
    /\ mpc = "start" => (out = <<>> /\ drv = "none" /\ cur = 0 /\ written = <<>>)
    /\ (drv # "none" \/ cur # 0 \/ written # <<>> \/ MainEnded \/ mpc # "start")
        => /\ Len(out) >= Len(Header)
           /\ SubSeq(out, 1, Len(Header)) = Header
           /\ HeaderCount = 1
C19_Witness == mpc = "crashed" /\ ui = 1 /\ gets # <<>> /\ out = Header /\ drv = "quit"

====
